---- MODULE Spec2Model ----
(***************************************************************************)
(* performanceagent.py: a polling metrics agent.  Each cycle of main()     *)
(* walks the process table, classifies every process into at most one      *)
(* role, folds the readings of the classified processes into one entry per *)
(* role, and hands the resulting mapping to the enabled backends           *)
(* (Prometheus gauges, Graphite UDP lines, CSV file), then sleeps.         *)
(*                                                                         *)
(* Modelling conventions                                                   *)
(*  - Python strings that are searched with `in` are sequences of          *)
(*    one-character strings; strings that are only built and compared      *)
(*    (role keys, metric paths, file paths) are TLA+ strings.              *)
(*  - A dict is an association list: a sequence of entries in insertion    *)
(*    order, at most one entry per key.                                    *)
(*  - `defaultdict` (line 52) is taken to be collections.defaultdict; the  *)
(*    module never imports it.                                             *)
(*  - sum(cpu)/len(cpu) is an exact rational [num, den] in lowest terms.   *)
(*  - rss is drawn in whole MiB, so rss / (1024 * 1024) is exact.          *)
(*  - datetime.now() is the logical clock `clock`, advanced by the sleep.  *)
(*  - A sink fails by raising; the only exceptions modelled are the ones    *)
(*    the calls written in the source can raise (a UDP send, open()).       *)
(*    process.info values are taken to be strings / lists, never None.      *)
(***************************************************************************)
EXTENDS Integers, Sequences, FiniteSets, TLC

\* ---------------------------------------------------------------- bounds
MaxProcs == 3       \* processes seen in the cycle of SpecCycle
LoopMaxProcs == 2   \* processes seen in each cycle of Spec
MaxCycles == 2      \* cycles started in Spec, over all restarts

\* --------------------------------------------------------------- strings
S_node == <<"n", "o", "d", "e">>

S_java == <<"j", "a", "v", "a">>

S_bash == <<"b", "a", "s", "h">>

S_sh == <<"s", "h">>

S_index_js == <<"i", "n", "d", "e", "x", ".", "j", "s">>

S_worker == <<"-", "-", "w", "o", "r", "k", "e", "r">>

S_jar == <<"-", "j", "a", "r">>

S_java_sh == <<"j", "a", "v", "a", ".", "s", "h">>

\* Python `sub in s` on str: substring containment.
StrIn(sub, s) ==
    \E i \in 1..(Len(s) - Len(sub) + 1) : SubSeq(s, i, i + Len(sub) - 1) = sub

\* Python `sep.join(tokens)` with character-sequence tokens.
RECURSIVE StrJoin(_, _)
StrJoin(sep, tokens) ==
    IF tokens = <<>> THEN <<>>
    ELSE IF Len(tokens) = 1 THEN tokens[1]
    ELSE tokens[1] \o sep \o StrJoin(sep, Tail(tokens))

\* Python `sep.join(paths)` with TLA+ string paths.
RECURSIVE PathJoin(_, _)
PathJoin(sep, paths) ==
    IF paths = <<>> THEN ""
    ELSE IF Len(paths) = 1 THEN paths[1]
    ELSE paths[1] \o sep \o PathJoin(sep, Tail(paths))

\* ------------------------------------------------------- configuration
\* APP_CONFIG, a dict of dicts in declaration order.
APP_CONFIG ==
    << [app_name |-> "nodejs_service",
        app_roles |-> << [role_name |-> "master",
                          role_config |-> [cmdline |-> S_index_js]],
                         [role_name |-> "worker",
                          role_config |-> [cmdline |-> S_worker]] >>],
       [app_name |-> "java_service",
        app_roles |-> << [role_name |-> "main",
                          role_config |-> [name |-> S_java]] >>] >>

\* `role = None`
None == "None"

\* f"{app_name}_{role_name}"
RoleKey(app_name, role_name) == app_name \o "_" \o role_name

\* The condition of the `if` at lines 73-74.
RoleMatches(role_config, name, cmdline) ==
    \/ ("name" \in DOMAIN role_config /\ StrIn(role_config.name, name))
    \/ ("cmdline" \in DOMAIN role_config /\ StrIn(role_config.cmdline, cmdline))

\* The inner loop without its `break`: the last matching role wins.
RECURSIVE ScanRolesNoBreak(_, _, _, _, _)
ScanRolesNoBreak(app_name, app_roles, j, name, cmdline) ==
    IF j > Len(app_roles) THEN None
    ELSE LET later == ScanRolesNoBreak(app_name, app_roles, j + 1, name, cmdline)
         IN IF later # None THEN later
            ELSE IF RoleMatches(app_roles[j].role_config, name, cmdline)
                 THEN RoleKey(app_name, app_roles[j].role_name)
                 ELSE None

\* Inner loop (lines 72-76): first matching role of one application, with
\* the `break`.
RECURSIVE ScanRoles(_, _, _, _, _)
ScanRoles(app_name, app_roles, j, name, cmdline) ==
    IF j > Len(app_roles) THEN None
    ELSE IF RoleMatches(app_roles[j].role_config, name, cmdline)
         THEN RoleKey(app_name, app_roles[j].role_name)
         ELSE ScanRoles(app_name, app_roles, j + 1, name, cmdline)

\* Outer loop (lines 71-78): applications in order, `if role: break`.
RECURSIVE ScanApps(_, _, _)
ScanApps(i, name, cmdline) ==
    IF i > Len(APP_CONFIG) THEN None
    ELSE LET role == ScanRoles(APP_CONFIG[i].app_name, APP_CONFIG[i].app_roles,
                               1, name, cmdline)
         IN IF role # None THEN role ELSE ScanApps(i + 1, name, cmdline)

\* Lines 66-78: the role of one process.
DetermineRole(p) == ScanApps(1, p.name, StrJoin(<<" ">>, p.cmdline))

\* ------------------------------------------------------------ processes
MiB == 1024 * 1024

\* One process as psutil presents it during one visit: the attributes of
\* process.info and the values its reads would return.
Proc(name, cmdline, cpu, mb, threads, rd, wr, sent, recv, files) ==
    [name |-> name, cmdline |-> cmdline, cpu_percent |-> cpu, rss |-> mb * MiB,
     num_threads |-> threads, read_bytes |-> rd, write_bytes |-> wr,
     bytes_sent |-> sent, bytes_recv |-> recv, open_files |-> files]

P_master == Proc(S_node, <<S_node, S_index_js>>, 50, 4, 3, 100, 10, 7, 9, <<"/m.log">>)

P_both == Proc(S_node, <<S_node, S_index_js, S_worker>>, 40, 2, 2, 60, 20, 7, 9, <<>>)

P_worker10 == Proc(S_node, <<S_node, S_worker>>, 10, 1, 1, 30, 5, 7, 9, <<"/w1.log">>)

P_worker20 == Proc(S_node, <<S_node, S_worker>>, 20, 2, 2, 40, 6, 7, 9, <<"/w2.log", "/w2.db">>)

P_worker30 == Proc(S_node, <<S_node, S_worker>>, 30, 3, 1, 50, 8, 8, 11, <<>>)

P_java == Proc(S_java, <<S_java, S_jar>>, 7, 8, 5, 70, 90, 8, 11, <<"/j.jar">>)

P_java_index == Proc(S_java, <<S_java, S_index_js>>, 25, 5, 4, 20, 30, 7, 9, <<>>)

P_sh == Proc(S_sh, <<S_sh, S_java_sh>>, 2, 1, 1, 1, 1, 7, 9, <<>>)

P_bash == Proc(S_bash, <<>>, 1, 1, 1, 2, 3, 7, 9, <<"/dev/tty">>)

ProcSet == {P_master, P_both, P_worker10, P_worker20, P_worker30,
            P_java, P_java_index, P_sh, P_bash}

LoopProcSet == {P_master, P_worker10}

\* The reads of lines 84-99, in order; "none" means every read succeeded.
ReadPoints == {"cpu_percent", "memory_info", "num_threads", "io_counters",
               "net_io_counters", "open_files"}

Outcomes == ReadPoints \cup {"none"}

\* ------------------------------------------------------------ aggregation
\* The default factory of the defaultdict (lines 52-61); the key is kept in
\* the entry.
DefaultEntry(role) ==
    [role |-> role, cpu_usage |-> <<>>, memory_usage |-> 0, num_threads |-> 0,
     disk_read_bytes |-> 0, disk_write_bytes |-> 0, network_sent_bytes |-> 0,
     network_recv_bytes |-> 0, open_files |-> <<>>]

\* `role in metrics_by_role`
HasKey(m, role) == \E i \in 1..Len(m) : m[i].role = role

\* Keys of the mapping.
Roles(m) == {m[i].role : i \in 1..Len(m)}

\* Position of an existing key.
IndexOf(m, role) == CHOOSE i \in 1..Len(m) : m[i].role = role

\* defaultdict.__getitem__: a missing key is inserted with the default.
Touch(m, role) == IF HasKey(m, role) THEN m ELSE Append(m, DefaultEntry(role))

\* Lines 101-109 with only the CPU append: the sums are left alone.
AggregateCpuOnly(m, role, p) ==
    LET m1 == Touch(m, role)
        i == IndexOf(m1, role)
    IN [m1 EXCEPT ![i].cpu_usage = Append(@, p.cpu_percent)]

\* Lines 101-109: fold the readings of one process into its role's entry.
Aggregate(m, role, p) ==
    LET m1 == Touch(m, role)
        i == IndexOf(m1, role)
    IN [m1 EXCEPT ![i] =
          [role |-> role,
           cpu_usage |-> Append(@.cpu_usage, p.cpu_percent),
           memory_usage |-> @.memory_usage + (p.rss \div MiB),
           num_threads |-> @.num_threads + p.num_threads,
           disk_read_bytes |-> @.disk_read_bytes + p.read_bytes,
           disk_write_bytes |-> @.disk_write_bytes + p.write_bytes,
           network_sent_bytes |-> @.network_sent_bytes + p.bytes_sent,
           network_recv_bytes |-> @.network_recv_bytes + p.bytes_recv,
           open_files |-> @.open_files \o p.open_files]]

\* The loop body with the key created before the reads: a failed read
\* leaves an empty entry behind.
VisitEager(m, p, outcome) ==
    LET role == DetermineRole(p)
    IN IF role = None THEN m
       ELSE IF outcome \in ReadPoints THEN Touch(m, role)
       ELSE Aggregate(m, role, p)

\* The loop body folding each reading as soon as it is read: a read that
\* fails after cpu_percent leaves the CPU value behind.
VisitInterleaved(m, p, outcome) ==
    LET role == DetermineRole(p)
    IN IF role = None THEN m
       ELSE IF outcome = "cpu_percent" THEN m
       ELSE IF outcome \in ReadPoints THEN AggregateCpuOnly(m, role, p)
       ELSE Aggregate(m, role, p)

\* The loop body (lines 64-112) for one process: no role -> continue; a read
\* raising NoSuchProcess / AccessDenied / ZombieProcess -> continue; else
\* aggregate.
Visit(m, p, outcome) ==
    LET role == DetermineRole(p)
    IN IF role = None THEN m
       ELSE IF outcome \in ReadPoints THEN m
       ELSE Aggregate(m, role, p)

\* ------------------------------------------------------------ reduction
RECURSIVE GCD(_, _)
GCD(a, b) == IF b = 0 THEN a ELSE GCD(b, a % b)

\* The rational n/d, d > 0, in lowest terms.
Rat(n, d) == [num |-> n \div GCD(n, d), den |-> d \div GCD(n, d)]

\* Python sum() over a list of numbers.
RECURSIVE SumSeq(_)
SumSeq(s) == IF s = <<>> THEN 0 ELSE Head(s) + SumSeq(Tail(s))

\* The reduction with floor division (`//`) in place of `/`.
AvgCpuFloor(cpu_usage) ==
    IF cpu_usage # <<>> THEN Rat(SumSeq(cpu_usage) \div Len(cpu_usage), 1)
    ELSE Rat(0, 1)

\* sum(cpu) / len(cpu) if cpu else 0   (lines 119, 139, 159)
AvgCpu(cpu_usage) ==
    IF cpu_usage # <<>> THEN Rat(SumSeq(cpu_usage), Len(cpu_usage)) ELSE Rat(0, 1)

\* ----------------------------------------------------------------- sinks
AllBackends == {"prometheus", "graphite", "file"}

\* The module-level Gauge objects (lines 20-26).
GaugeNames == {"process_cpu_usage", "process_memory_usage", "process_num_threads",
               "process_disk_read_bytes", "process_disk_write_bytes",
               "process_network_sent_bytes", "process_network_recv_bytes"}

\* A registry whose gauges have no labelled child yet.
EmptyRegistry == [g \in GaugeNames |-> <<>>]

\* Lines 119-125 with the thread total taken for the memory total.
GaugeValuesSwapped(e) ==
    [process_cpu_usage |-> AvgCpu(e.cpu_usage),
     process_memory_usage |-> e.num_threads,
     process_num_threads |-> e.num_threads,
     process_disk_read_bytes |-> e.disk_read_bytes,
     process_disk_write_bytes |-> e.disk_write_bytes,
     process_network_sent_bytes |-> e.network_sent_bytes,
     process_network_recv_bytes |-> e.network_recv_bytes]

\* Lines 119-125: the seven values published for one role.
GaugeValues(e) ==
    [process_cpu_usage |-> AvgCpu(e.cpu_usage),
     process_memory_usage |-> e.memory_usage,
     process_num_threads |-> e.num_threads,
     process_disk_read_bytes |-> e.disk_read_bytes,
     process_disk_write_bytes |-> e.disk_write_bytes,
     process_network_sent_bytes |-> e.network_sent_bytes,
     process_network_recv_bytes |-> e.network_recv_bytes]

\* Lines 127-133: GAUGE.labels(role=role).set(value) on every gauge.
SetRole(reg, e) ==
    [g \in GaugeNames |-> (e.role :> GaugeValues(e)[g]) @@ reg[g]]

RECURSIVE SetGauges(_, _)
SetGauges(reg, m) ==
    IF m = <<>> THEN reg ELSE SetGauges(SetRole(reg, Head(m)), Tail(m))

\* The sink rebuilding the registry from the current mapping only.
RegistryAfterCleared(reg, m) == SetGauges(EmptyRegistry, m)

\* publish_to_prometheus (lines 116-133): the registry after the call.
RegistryAfter(reg, m) == SetGauges(reg, m)

\* gethostname()
Hostname == "host"

\* Lines 147-153: the seven lines sent for one role, in order.
RoleLines(e) ==
    LET path(metric) == Hostname \o "." \o e.role \o "." \o metric
    IN << [path |-> path("cpu_usage"), value |-> AvgCpu(e.cpu_usage)],
          [path |-> path("memory_usage"), value |-> e.memory_usage],
          [path |-> path("num_threads"), value |-> e.num_threads],
          [path |-> path("disk_read_bytes"), value |-> e.disk_read_bytes],
          [path |-> path("disk_write_bytes"), value |-> e.disk_write_bytes],
          [path |-> path("network_sent_bytes"), value |-> e.network_sent_bytes],
          [path |-> path("network_recv_bytes"), value |-> e.network_recv_bytes] >>

\* publish_to_graphite (lines 135-153): every line of the call, in order.
RECURSIVE GraphiteLines(_)
GraphiteLines(m) ==
    IF m = <<>> THEN <<>> ELSE RoleLines(Head(m)) \o GraphiteLines(Tail(m))

\* Lines 159-179: the dict appended to aggregated_metrics for one role.
Row(now, e) ==
    [timestamp |-> now, role |-> e.role,
     avg_cpu_usage |-> AvgCpu(e.cpu_usage),
     total_memory_usage |-> e.memory_usage,
     total_num_threads |-> e.num_threads,
     total_disk_read_bytes |-> e.disk_read_bytes,
     total_disk_write_bytes |-> e.disk_write_bytes,
     total_network_sent_bytes |-> e.network_sent_bytes,
     total_network_recv_bytes |-> e.network_recv_bytes,
     open_files |-> PathJoin(", ", e.open_files)]

\* Lines 157-179: aggregated_metrics.
RECURSIVE FileRows(_, _)
FileRows(now, m) ==
    IF m = <<>> THEN <<>> ELSE <<Row(now, Head(m))>> \o FileRows(now, Tail(m))

\* writer.writeheader(): the row that maps every field name to itself.
HeaderRow ==
    [timestamp |-> "timestamp", role |-> "role",
     avg_cpu_usage |-> "avg_cpu_usage",
     total_memory_usage |-> "total_memory_usage",
     total_num_threads |-> "total_num_threads",
     total_disk_read_bytes |-> "total_disk_read_bytes",
     total_disk_write_bytes |-> "total_disk_write_bytes",
     total_network_sent_bytes |-> "total_network_sent_bytes",
     total_network_recv_bytes |-> "total_network_recv_bytes",
     open_files |-> "open_files"]

\* A row of the file is the header row.
IsHeader(row) == row.role = "role"

\* Lines 182-190 writing the header on every call.
FileAfterAlwaysHeader(content, rows) == content \o <<HeaderRow>> \o rows

\* Lines 182-190: the file content after a successful append; f.tell() of a
\* file opened for append is its size.
FileAfter(content, rows) ==
    IF Len(content) = 0 THEN <<HeaderRow>> \o rows ELSE content \o rows

\* ----------------------------------------------------------------- state
VARIABLES
    pc,               \* position of main(): "main", "collect", "iter",
                      \* "prometheus", "graphite", "file", "sleep", "crashed"
    BACKENDS,         \* the backends named in config.ini
    http_server,      \* start_http_server has been called
    clock,            \* datetime.now(), in sleeps since the first start
    metrics_by_role,  \* the mapping of the current cycle
    registry,         \* gauge name -> (role label -> value)
    wire,             \* lines sent by the latest call of publish_to_graphite
    log_exists,       \* LOG_FILE exists
    log,              \* rows of LOG_FILE
    visited,          \* history: processes visited in this cycle, with outcome
    ran,              \* history: sinks that returned in this cycle
    raised,           \* history: the call whose exception ended main, or "none"
    ever              \* history: roles handed to the registry sink since start

vars == <<pc, BACKENDS, http_server, clock, metrics_by_role, registry, wire,
          log_exists, log, visited, ran, raised, ever>>

\* A row written by an earlier run of the agent.
PriorRow == Row(0, Aggregate(<<>>, "java_service_main", P_java)[1])

\* The log files the agent can find at start-up: none, an empty one, or one
\* with a header and a row.
InitialLogs ==
    {[exists |-> FALSE, content |-> <<>>],
     [exists |-> TRUE, content |-> <<>>],
     [exists |-> TRUE, content |-> <<HeaderRow, PriorRow>>]}

InitWith(backendChoices, logs) ==
    /\ pc = "main"
    /\ BACKENDS \in backendChoices
    /\ http_server = FALSE
    /\ clock = 1
    /\ metrics_by_role = <<>>
    /\ registry = EmptyRegistry
    /\ wire = <<>>
    /\ \E f \in logs : log_exists = f.exists /\ log = f.content
    /\ visited = <<>>
    /\ ran = {}
    /\ raised = "none"
    /\ ever = {}

\* Lines 193-196: main() before the loop.
Start ==
    /\ pc = "main"
    /\ pc' = "collect"
    /\ http_server' = ("prometheus" \in BACKENDS)
    /\ UNCHANGED <<BACKENDS, clock, metrics_by_role, registry, wire, log_exists,
                   log, visited, ran, raised, ever>>

\* The mapping of the previous cycle kept as the start of the next one.
CarriedMapping(previous) == previous

\* Lines 52-61: the mapping a call of collect_application_metrics starts with.
FreshMapping(previous) == <<>>

\* Lines 200, 50-61: collect_application_metrics is entered.
CollectBegin ==
    /\ pc = "collect"
    /\ pc' = "iter"
    /\ metrics_by_role' = FreshMapping(metrics_by_role)
    /\ visited' = <<>>
    /\ ran' = {}
    /\ UNCHANGED <<BACKENDS, http_server, clock, registry, wire, log_exists, log,
                   raised, ever>>

\* Lines 63-112: one iteration of the loop over psutil.process_iter, for a
\* process p whose reads end as `outcome`.
VisitProcess(procs, limit) ==
    /\ pc = "iter"
    /\ Len(visited) < limit
    /\ \E p \in procs, outcome \in Outcomes :
          /\ metrics_by_role' = Visit(metrics_by_role, p, outcome)
          /\ visited' = Append(visited, [proc |-> p,
                                         ok |-> DetermineRole(p) = None
                                                \/ outcome = "none"])
    /\ UNCHANGED <<pc, BACKENDS, http_server, clock, registry, wire, log_exists,
                   log, ran, raised, ever>>

\* Line 114: the iterator is exhausted and the mapping is returned.
CollectReturn ==
    /\ pc = "iter"
    /\ pc' = "prometheus"
    /\ UNCHANGED <<BACKENDS, http_server, clock, metrics_by_role, registry, wire,
                   log_exists, log, visited, ran, raised, ever>>

\* Lines 203-204, 116-133.
PublishPrometheus ==
    /\ pc = "prometheus"
    /\ pc' = "graphite"
    /\ IF "prometheus" \in BACKENDS
       THEN /\ registry' = RegistryAfter(registry, metrics_by_role)
            /\ ran' = ran \cup {"prometheus"}
            /\ ever' = ever \cup Roles(metrics_by_role)
       ELSE UNCHANGED <<registry, ran, ever>>
    /\ UNCHANGED <<BACKENDS, http_server, clock, metrics_by_role, wire,
                   log_exists, log, visited, raised>>

\* Lines 205-206, 135-153: every send succeeds.
PublishGraphite ==
    /\ pc = "graphite"
    /\ pc' = "file"
    /\ IF "graphite" \in BACKENDS
       THEN /\ wire' = GraphiteLines(metrics_by_role)
            /\ ran' = ran \cup {"graphite"}
       ELSE UNCHANGED <<wire, ran>>
    /\ UNCHANGED <<BACKENDS, http_server, clock, metrics_by_role, registry,
                   log_exists, log, visited, raised, ever>>

\* Lines 205-206, 147-153: the first send for the j-th role raises, after
\* the lines of the roles before it went out; nothing in publish_to_graphite
\* or main catches it.
GraphiteRaises ==
    /\ pc = "graphite"
    /\ "graphite" \in BACKENDS
    /\ \E j \in 1..Len(metrics_by_role) :
          wire' = GraphiteLines(SubSeq(metrics_by_role, 1, j - 1))
    /\ pc' = "crashed"
    /\ raised' = "graphite"
    /\ UNCHANGED <<BACKENDS, http_server, clock, metrics_by_role, registry,
                   log_exists, log, visited, ran, ever>>

\* Lines 207-208, 155-190: the rows are appended.
PublishFile ==
    /\ pc = "file"
    /\ pc' = "sleep"
    /\ IF "file" \in BACKENDS
       THEN /\ log_exists' = TRUE
            /\ log' = FileAfter(log, FileRows(clock, metrics_by_role))
            /\ ran' = ran \cup {"file"}
       ELSE UNCHANGED <<log_exists, log, ran>>
    /\ UNCHANGED <<BACKENDS, http_server, clock, metrics_by_role, registry, wire,
                   visited, raised, ever>>

\* Lines 207-208, 182: open() raises (file not writable); nothing in
\* publish_to_file or main catches it.
FileRaises ==
    /\ pc = "file"
    /\ "file" \in BACKENDS
    /\ pc' = "crashed"
    /\ raised' = "file"
    /\ UNCHANGED <<BACKENDS, http_server, clock, metrics_by_role, registry, wire,
                   log_exists, log, visited, ran, ever>>

\* Line 211, then the `while True` of line 198.
Sleep ==
    /\ pc = "sleep"
    /\ clock < MaxCycles
    /\ clock' = clock + 1
    /\ pc' = "collect"
    /\ UNCHANGED <<BACKENDS, http_server, metrics_by_role, registry, wire,
                   log_exists, log, visited, ran, raised, ever>>

\* The agent is started again, after a crash or after being stopped during
\* the sleep: a new process, the same configuration and log file, later.
Restart ==
    /\ pc \in {"sleep", "crashed"}
    /\ clock < MaxCycles
    /\ clock' = clock + 1
    /\ pc' = "main"
    /\ http_server' = FALSE
    /\ metrics_by_role' = <<>>
    /\ registry' = EmptyRegistry
    /\ wire' = <<>>
    /\ visited' = <<>>
    /\ ran' = {}
    /\ raised' = "none"
    /\ ever' = {}
    /\ UNCHANGED <<BACKENDS, log_exists, log>>

\* ------------------------------------------------------- specifications
\* The poll loop over several cycles, with sink failures and restarts, with
\* every backend enabled or none.
Init == InitWith({AllBackends, {}}, InitialLogs)

Next ==
    \/ Start
    \/ CollectBegin
    \/ VisitProcess(LoopProcSet, LoopMaxProcs)
    \/ CollectReturn
    \/ PublishPrometheus
    \/ PublishGraphite
    \/ GraphiteRaises
    \/ PublishFile
    \/ FileRaises
    \/ Sleep
    \/ Restart

Spec == Init /\ [][Next]_vars

\* One cycle of main() over the full range of processes, all backends on.
InitCycle == InitWith({AllBackends}, {[exists |-> FALSE, content |-> <<>>]})

NextCycle ==
    \/ Start
    \/ CollectBegin
    \/ VisitProcess(ProcSet, MaxProcs)
    \/ CollectReturn
    \/ PublishPrometheus
    \/ PublishGraphite
    \/ PublishFile

SpecCycle == InitCycle /\ [][NextCycle]_vars

\* ------------------------------------------------- vocabulary of the claims
\* Positions <<application, role>> of the rule table.
RuleIdx ==
    UNION {{<<i, j>> : j \in 1..Len(APP_CONFIG[i].app_roles)} :
             i \in 1..Len(APP_CONFIG)}

\* Declaration order of two positions.
Before(x, y) == x[1] < y[1] \/ (x[1] = y[1] /\ x[2] < y[2])

RuleAt(x) == APP_CONFIG[x[1]].app_roles[x[2]]

\* Positions whose predicate the process satisfies.
Matching(p) ==
    {x \in RuleIdx : RoleMatches(RuleAt(x).role_config, p.name,
                                 StrJoin(<<" ">>, p.cmdline))}

\* Key of the earliest declared rule the process satisfies, None without one.
FirstMatch(p) ==
    IF Matching(p) = {} THEN None
    ELSE LET x == CHOOSE y \in Matching(p) : \A z \in Matching(p) : z = y \/ Before(y, z)
         IN RoleKey(APP_CONFIG[x[1]].app_name, RuleAt(x).role_name)

AllKeys == {RoleKey(APP_CONFIG[x[1]].app_name, RuleAt(x).role_name) : x \in RuleIdx}

\* Processes of this cycle classified to role r whose reads all succeeded,
\* in visiting order.
Folded(r) ==
    LET keep(v) == v.ok /\ FirstMatch(v.proc) = r
        sel == SelectSeq(visited, keep)
    IN [i \in 1..Len(sel) |-> sel[i].proc]

\* Sum of one reading over a sequence of processes.
RECURSIVE Total(_, _)
Total(ps, field) == IF ps = <<>> THEN 0 ELSE Head(ps)[field] + Total(Tail(ps), field)

\* CPU list of role r in mapping m, empty when the key is absent.
CpuOf(m, r) == IF HasKey(m, r) THEN m[IndexOf(m, r)].cpu_usage ELSE <<>>

\* collect_application_metrics has returned in this cycle.
Returned == pc \in {"prometheus", "graphite", "file", "sleep"}

\* The step is an iteration of the process loop.
VisitStep == pc = "iter" /\ Len(visited') = Len(visited) + 1

\* The rows appended to the log by the latest call of publish_to_file.
LastRows == SubSeq(log, Len(log) - Len(metrics_by_role) + 1, Len(log))

\* ---------------------------------------------------------------- claims
\* C1: every process is classified to the earliest declared role whose name
\* or command-line predicate it satisfies: the CPU list held under each role
\* key is exactly the CPU readings of the successfully read processes whose
\* earliest matching rule is that role, in visiting order; a later matching
\* role or application never receives the sample, and a process matching no
\* rule adds nothing to any key.
C1_FirstMatchWins ==
    \A r \in AllKeys \cup Roles(metrics_by_role) :
        CpuOf(metrics_by_role, r) =
            [i \in 1..Len(Folded(r)) |-> Folded(r)[i].cpu_percent]

\* C1 witness: the mapping has been returned after visiting a process that
\* satisfies two rules (a later role or a later application also matches),
\* one that satisfies none, and the first is filed under its earliest rule.
C1_Witness ==
    /\ Returned
    /\ \E i \in 1..Len(visited) :
          /\ visited[i].ok
          /\ Cardinality(Matching(visited[i].proc)) >= 2
          /\ HasKey(metrics_by_role, FirstMatch(visited[i].proc))
    /\ \E i \in 1..Len(visited) : Matching(visited[i].proc) = {}

\* C2: a role key is in the mapping only if some process of this cycle was
\* classified to it and had every read succeed; every key present has a
\* non-empty CPU list.
C2_PresentRoleHasSample ==
    \A i \in 1..Len(metrics_by_role) :
        /\ metrics_by_role[i].cpu_usage # <<>>
        /\ \E k \in 1..Len(visited) :
              /\ visited[k].ok
              /\ DetermineRole(visited[k].proc) = metrics_by_role[i].role

\* C2 witness: the mapping has been returned, some process classified to a
\* role failed a read, no process of that role succeeded, and the role is
\* absent while another role is present.
C2_Witness ==
    /\ Returned
    /\ metrics_by_role # <<>>
    /\ \E k \in 1..Len(visited) :
          /\ ~visited[k].ok
          /\ ~HasKey(metrics_by_role, DetermineRole(visited[k].proc))

\* C6: once the sinks have run, the row and the gauges of every role carry
\* the arithmetic mean of the CPU readings of exactly the processes folded
\* into that role in this cycle, and the sums of their memory (MB), thread
\* count and byte counters; an empty CPU list reduces to 0.
C6_PerRoleReduction ==
    /\ AvgCpu(<<>>) = [num |-> 0, den |-> 1]
    /\ (pc = "sleep" /\ ran = AllBackends) =>
          /\ Len(LastRows) = Len(metrics_by_role)
          /\ \A i \in 1..Len(LastRows) :
                LET row == LastRows[i]
                    ps == Folded(row.role)
                IN /\ ps # <<>>
                   /\ row.avg_cpu_usage.num * Len(ps)
                        = Total(ps, "cpu_percent") * row.avg_cpu_usage.den
                   /\ registry.process_cpu_usage[row.role] = row.avg_cpu_usage
                   /\ row.total_memory_usage * MiB = Total(ps, "rss")
                   /\ row.total_num_threads = Total(ps, "num_threads")
                   /\ row.total_disk_read_bytes = Total(ps, "read_bytes")
                   /\ row.total_disk_write_bytes = Total(ps, "write_bytes")
                   /\ row.total_network_sent_bytes = Total(ps, "bytes_sent")
                   /\ row.total_network_recv_bytes = Total(ps, "bytes_recv")

\* C6 witness: the sinks have run on a mapping with two roles, one of them
\* holding two samples whose mean is not a whole number.
C6_Witness ==
    /\ pc = "sleep"
    /\ ran = AllBackends
    /\ Len(metrics_by_role) = 2
    /\ \E i \in 1..2 :
          /\ Len(metrics_by_role[i].cpu_usage) = 2
          /\ LastRows[i].avg_cpu_usage.den > 1

\* C7: an iteration in which a read of the process raises leaves the whole
\* mapping exactly as it was, and the loop goes on.
C7_FailedProcessSkipped ==
    [][(VisitStep /\ ~visited'[Len(visited')].ok)
        => (metrics_by_role' = metrics_by_role /\ pc' = "iter")]_vars

\* C7 witness: the process visited last failed a read, its role already has
\* an entry from an earlier process, and the entry is still there.
C7_Witness ==
    /\ pc = "iter"
    /\ visited # <<>>
    /\ ~visited[Len(visited)].ok
    /\ HasKey(metrics_by_role, DetermineRole(visited[Len(visited)].proc))

\* The step is a returning call of the given sink, the sink being enabled.
SinkStep(stage, next) == pc = stage /\ pc' = next /\ stage \in BACKENDS

\* The step starts a new agent process.
RestartStep == pc' = "main"

\* Rows added to the log by the step.
Appended == SubSeq(log', Len(log') - Len(metrics_by_role) + 1, Len(log'))

\* Roles with at least one folded process in this cycle.
FoldedRoles == {r \in AllKeys : Folded(r) # <<>>}

\* C3: a cycle in which publish_to_graphite failed still has publish_to_file
\* run: whenever the cycle is over (main sleeps or has stopped) after the
\* Graphite sink raised and the file backend is enabled, the file sink has
\* been invoked in that cycle.
C3_FileRunsAfterSinkFailure ==
    (pc \in {"sleep", "crashed"} /\ raised = "graphite" /\ "file" \in BACKENDS)
        => "file" \in ran

\* C4: main never terminates because of a failed process read or a failed
\* sink publish.
C4_NeverTerminates == pc # "crashed"

C5_Inv ==
    /\ log # <<>> =>
          /\ IsHeader(log[1])
          /\ \A i \in 2..Len(log) : ~IsHeader(log[i])
    /\ "file" \in ran => (log_exists /\ log # <<>>)

C5_Act ==
    SinkStep("file", "sleep") =>
        IF log # <<>>
        THEN /\ Len(log') = Len(log) + Len(metrics_by_role)
             /\ SubSeq(log', 1, Len(log)) = log
        ELSE /\ Len(log') = 1 + Len(metrics_by_role)
             /\ IsHeader(log'[1])

\* C5: the log never holds a header anywhere but in its first row, it holds
\* one there as soon as publish_to_file has written, and a call on a log that
\* already has its header appends exactly one row per role of the mapping
\* and nothing else; a call on a missing or empty log writes the header and
\* then the rows.
C5_HeaderOnce == []C5_Inv /\ [][C5_Act]_vars

\* C5 witness: a later cycle (after a sleep or a restart) has appended to a
\* log that already held rows, in a cycle with no role at all.
C5_Witness ==
    /\ pc = "sleep"
    /\ clock >= 2
    /\ "file" \in ran
    /\ metrics_by_role = <<>>
    /\ Len(log) >= 2

C8_Inv ==
    (pc = "sleep" /\ {"prometheus", "file"} \subseteq ran) =>
        /\ Len(LastRows) = Len(metrics_by_role)
        /\ \A i \in 1..Len(LastRows) :
              LET row == LastRows[i]
                  r == metrics_by_role[i].role
              IN /\ row.role = r
                 /\ \A g \in GaugeNames : r \in DOMAIN registry[g]
                 /\ registry.process_cpu_usage[r] = row.avg_cpu_usage
                 /\ registry.process_memory_usage[r] = row.total_memory_usage
                 /\ registry.process_num_threads[r] = row.total_num_threads
                 /\ registry.process_disk_read_bytes[r] = row.total_disk_read_bytes
                 /\ registry.process_disk_write_bytes[r] = row.total_disk_write_bytes
                 /\ registry.process_network_sent_bytes[r]
                      = row.total_network_sent_bytes
                 /\ registry.process_network_recv_bytes[r]
                      = row.total_network_recv_bytes

C8_Act ==
    /\ (pc \in AllBackends /\ ~RestartStep) => metrics_by_role' = metrics_by_role
    /\ SinkStep("prometheus", "graphite") =>
          \A g \in GaugeNames :
              /\ Roles(metrics_by_role) \subseteq DOMAIN registry'[g]
              /\ (DOMAIN registry'[g]) \ (DOMAIN registry[g])
                    \subseteq Roles(metrics_by_role)
    /\ SinkStep("file", "sleep") =>
          {Appended[i].role : i \in 1..Len(Appended)} = Roles(metrics_by_role)

\* C8: in a cycle where the registry sink and the file sink both ran, every
\* role of the mapping has the same seven values on its gauges as in its
\* row; the registry sink sets labels for exactly the roles of the mapping,
\* the file sink writes rows for exactly those roles, and no sink step
\* changes the mapping.
C8_CrossSinkConsistency == []C8_Inv /\ [][C8_Act]_vars

\* C8 witness: both sinks have run on a mapping with two roles.
C8_Witness ==
    /\ pc = "sleep"
    /\ {"prometheus", "file"} \subseteq ran
    /\ Len(metrics_by_role) = 2

C9_Act ==
    /\ (metrics_by_role' # metrics_by_role \/ visited' # visited)
          => (pc \in {"collect", "iter"} \/ RestartStep)
    /\ registry' # registry => (pc = "prometheus" \/ RestartStep)
    /\ wire' # wire => (pc = "graphite" \/ RestartStep)
    /\ log' # log => pc = "file"
    /\ pc' = "sleep" => pc = "file"
    /\ pc' = "collect" => pc \in {"main", "sleep"}
    /\ clock' # clock => (pc = "sleep" \/ RestartStep)
    /\ (pc = "collect" /\ pc' = "iter") => metrics_by_role' = <<>>
    /\ SinkStep("prometheus", "graphite") =>
          \A r \in FoldedRoles :
              registry'.process_num_threads[r] = Total(Folded(r), "num_threads")
    /\ SinkStep("graphite", "file") => Len(wire') = 7 * Cardinality(FoldedRoles)
    /\ SinkStep("file", "sleep") =>
          /\ {Appended[i].role : i \in 1..Len(Appended)} = FoldedRoles
          /\ \A i \in 1..Len(Appended) :
                /\ Appended[i].timestamp = clock
                /\ Appended[i].total_num_threads
                     = Total(Folded(Appended[i].role), "num_threads")

\* C9: cycles do not overlap.  The mapping changes only while main is inside
\* collect_application_metrics, each sink acts only at its own place after
\* the collection has returned, the sleep follows the file stage, a new
\* collection starts only after the sleep (or at start-up) and with an empty
\* mapping, and what each sink delivers in a cycle is the aggregate of the
\* processes visited in that same cycle.
C9_SequentialCycles == [][C9_Act]_vars

\* C9 witness: a second cycle of the same process has delivered to all three
\* sinks, its roles differ from the first cycle's, whose row is in the log.
C9_Witness ==
    /\ pc = "sleep"
    /\ ran = AllBackends
    /\ metrics_by_role # <<>>
    /\ \E i \in 2..Len(log) :
          /\ log[i].timestamp = clock - 1
          /\ log[i].timestamp >= 1
          /\ ~HasKey(metrics_by_role, log[i].role)
          /\ log[i].role \in ever

C10_Inv == \A g \in GaugeNames : DOMAIN registry[g] = ever

C10_Act ==
    ~RestartStep =>
        \A g \in GaugeNames : \A r \in DOMAIN registry[g] :
            /\ r \in DOMAIN registry'[g]
            /\ ~HasKey(metrics_by_role, r) => registry'[g][r] = registry[g][r]

\* C10: within one run of the agent the labels of every gauge are exactly
\* the roles ever handed to the registry sink, no step removes a label, and
\* a label whose role is not in the current mapping keeps its value.
C10_RegistryKeepsStaleRoles == []C10_Inv /\ [][C10_Act]_vars

\* C10 witness: the registry sink has run in this cycle on a non-empty
\* mapping and the registry still exposes a role that the mapping lacks.
C10_Witness ==
    /\ "prometheus" \in ran
    /\ metrics_by_role # <<>>
    /\ \E r \in DOMAIN registry.process_cpu_usage : ~HasKey(metrics_by_role, r)

====
